---- MODULE Spec2Model ----
(***************************************************************************)
(* A model of pose_pipeline (pipeline.py, env.py): the PersonBbox track     *)
(* resolver and its gap-filling, the transient files the stages' make       *)
(* methods create, the dispatch of keys by populate, the selection of a     *)
(* backend by method name, a make call under populate's transaction, the    *)
(* values stored for unmatched keypoints, the DetectedFrames statistics     *)
(* and the dependency graph of the tables.                                  *)
(***************************************************************************)
EXTENDS Integers, Sequences, FiniteSets, TLC

VARIABLES
    tracks,          \* PersonBbox.make: (TrackingBbox & key).fetch1('tracks')
    keep_tracks,     \* PersonBbox.make: (PersonBboxValid & key).fetch1('keep_tracks')
    pb_pc,           \* PersonBbox.make: "ready", "done" (insert1 returned), "raised"
    present,         \* PersonBbox.make: the local present (line 398), before smoothing
    bbox,            \* PersonBbox.make: the local bbox (line 399), before smoothing
    key_present,     \* PersonBbox.make: key['present'], as committed
    key_bbox,        \* PersonBbox.make: key['bbox'], as committed
    fs,              \* the transient files on disk: temporary files and fetched attachments
    fm_calls,        \* the number of make calls made so far
    fm_last,         \* the last make call: stage, exit path, whether insert1 was done
    Video,           \* the rows of each table, by primary key
    VideoInfo,
    TrackingBboxMethod,
    TrackingBbox,
    PersonBboxValid,
    PersonBbox,
    DetectedFrames,  \* rows [key, fraction_found]
    BestDetectedFrames,
    last_dispatch,   \* the last make call of populate: stage, key, whether the key was ready
    lookup,          \* the rows of each method lookup table, by stage
    method_key,      \* the row of a stage's method table (the requested method)
    computed,        \* whether the stage's table has a row for method_key
    last_make,       \* the last make call for method_key: name fetched, backend run, error
    mk,              \* a make call run by populate: stage, key, next step, exit, rows inserted
    mk_rows,         \* the committed rows [stage, pk] of the computed tables
    matched,         \* per frame, the candidate the keypoint matcher picks for the bbox, or Null
    mt_pc,           \* OpenPosePerson.make, CenterHMRPerson.make: "ready", "done", "raised"
    mt_key,          \* the stage and the fields of the key passed to insert1
    df_pc,           \* DetectedFrames.make: "ready", "done" (insert1 returned), "raised"
    df_key,          \* DetectedFrames.make: the key, with the fields make has set
    populated,       \* the tables that hold the row of the one video, subject and method
    gr_last,         \* the last make of populate: stage, tables whose fetch1 found no row
    sys_path,        \* sys.path
    blocks,          \* the add_path blocks entered and not yet left, innermost last
    ap_enters,       \* the number of add_path blocks entered so far
    ap_last          \* the last __exit__: sys.path before __enter__, after it, before and after __exit__

bboxVars == <<tracks, keep_tracks, pb_pc, present, bbox, key_present, key_bbox>>
fileVars == <<fs, fm_calls, fm_last>>
tableVars == <<Video, VideoInfo, TrackingBboxMethod, TrackingBbox, PersonBboxValid,
               PersonBbox, DetectedFrames, BestDetectedFrames>>
schedVars == <<tableVars, last_dispatch>>

methodVars == <<lookup, method_key, computed, last_make>>

makeVars == <<mk, mk_rows>>
matchVars == <<matched, mt_pc, mt_key>>
statVars == <<df_pc, df_key>>
graphVars == <<populated, gr_last>>
pathVars == <<sys_path, blocks, ap_enters, ap_last>>
extraVars == <<makeVars, matchVars, statVars, graphVars, pathVars>>

vars == <<bboxVars, fileVars, schedVars, methodVars, extraVars>>

-----------------------------------------------------------------------------
(* Bounds of the inputs.                                                    *)

\* Longest tracks input over the presence alphabet (LongIdLists).
MaxFrames == 7
\* Longest tracks input over the full alphabet (RichIdLists).
MaxRichFrames == 3
\* Number of make calls in a run of the transient-file model.
MaxMakeCalls == 2
\* The longest video given to the keypoint matcher, in frames.
MaxMatchFrames == 4
\* The number of add_path blocks entered in a run.
MaxEnters == 2

-----------------------------------------------------------------------------
(* Values.                                                                  *)

\* The limit=2 of both fillna calls.
FillLimit == 2

\* A cell of the DataFrame: a number, or np.nan.
Num(v) == [isna |-> FALSE, v |-> v]
NaN == [isna |-> TRUE, v |-> 0]

ZeroBox == <<0, 0, 0, 0>>

\* The tlhw box of the j-th detection of frame t: every detection of an input
\* has a box of its own, none of them the zero box.
tlhw(t, j) == <<10 * t + j, 20 * t + j, 30 + t, 40 + j>>

\* The detections of frame t, given the track ids of its detections in order.
Detections(t, ids) == [j \in 1..Len(ids) |-> [track_id |-> ids[j], tlhw |-> tlhw(t, j)]]

\* Track id lists of one frame: nothing, one track, the same track twice, two tracks.
RichIdLists == {<<>>, <<1>>, <<2>>, <<1, 1>>, <<1, 2>>}
RichKeepTracks == SUBSET {1, 2}
LongIdLists == {<<>>, <<1>>, <<1, 1>>}
LongKeepTracks == {{1}}

-----------------------------------------------------------------------------
(* PersonBbox.make: identity resolution.                                    *)

process_timestamp_AnyValid(track_timestep, keep) ==
    LET valid == SelectSeq(track_timestep, LAMBDA t : t.track_id \in keep)
    IN  IF Len(valid) >= 1
        THEN [present |-> TRUE, bbox |-> valid[1].tlhw]
        ELSE [present |-> FALSE, bbox |-> ZeroBox]

process_timestamp_FirstDetection(track_timestep, keep) ==
    LET valid == SelectSeq(track_timestep, LAMBDA t : t.track_id \in keep)
    IN  IF Len(valid) = 1
        THEN [present |-> TRUE, bbox |-> track_timestep[1].tlhw]
        ELSE [present |-> FALSE, bbox |-> ZeroBox]

process_timestamp(track_timestep, keep) ==
    LET valid == SelectSeq(track_timestep, LAMBDA t : t.track_id \in keep)
    IN  IF Len(valid) = 1
        THEN [present |-> TRUE, bbox |-> valid[1].tlhw]
        ELSE [present |-> FALSE, bbox |-> ZeroBox]

extract_person_track(trks, keep) ==
    [t \in 1..Len(trks) |-> process_timestamp(trks[t], keep)]

-----------------------------------------------------------------------------
(* PersonBbox.make: smoothing. A DataFrame is a sequence of rows of 4 cells.*)

\* pd.DataFrame(bbox)
DataFrame(b) == [t \in 1..Len(b) |-> [c \in 1..4 |-> Num(b[t][c])]]

mask_absent_TopLeft(df, pres) ==
    [t \in 1..Len(df) |->
        IF pres[t] THEN df[t] ELSE [c \in 1..4 |-> IF c <= 2 THEN NaN ELSE df[t][c]]]

\* df.iloc[~present] = np.nan
mask_absent(df, pres) ==
    [t \in 1..Len(df) |-> IF pres[t] THEN df[t] ELSE [c \in 1..4 |-> NaN]]

\* The fill loop of a forward fill over one column, from cell i on: val is the
\* last value seen, fill_count the number of cells filled since. mask[i] is
\* values[i].isna; the result is the cells i..N after the fill.
RECURSIVE pad_loop(_, _, _, _, _)
pad_loop(values, i, val, fill_count, limit) ==
    IF i > Len(values) THEN <<>>
    ELSE IF values[i].isna
         THEN IF fill_count >= limit
              THEN <<values[i]>> \o pad_loop(values, i + 1, val, fill_count, limit)
              ELSE <<val>> \o pad_loop(values, i + 1, val, fill_count + 1, limit)
         ELSE <<values[i]>> \o pad_loop(values, i + 1, values[i], 0, limit)

pad(values, limit) ==
    IF Len(values) = 0 THEN <<>> ELSE pad_loop(values, 1, values[1], 0, limit)

RECURSIVE Reverse(_)
Reverse(s) == IF Len(s) = 0 THEN <<>> ELSE Reverse(Tail(s)) \o <<Head(s)>>

\* A backward fill is the forward fill of the reversed column.
backfill(values, limit) == Reverse(pad(Reverse(values), limit))

RECURSIVE Column(_, _, _)
Column(df, c, t) == IF t > Len(df) THEN <<>> ELSE <<df[t][c]>> \o Column(df, c, t + 1)

RECURSIVE FromColumns(_, _, _)
FromColumns(cols, t, n) ==
    IF t > n THEN <<>>
    ELSE <<(<<cols[1][t], cols[2][t], cols[3][t], cols[4][t]>>)>> \o FromColumns(cols, t + 1, n)

\* df.fillna(method='ffill', axis=0, limit=limit), column by column
fillna_ffill(df, limit) ==
    LET cols == <<pad(Column(df, 1, 1), limit), pad(Column(df, 2, 1), limit),
                  pad(Column(df, 3, 1), limit), pad(Column(df, 4, 1), limit)>>
    IN  FromColumns(cols, 1, Len(df))

\* df.fillna(method='bfill', axis=0, limit=limit), column by column
fillna_bfill(df, limit) ==
    LET cols == <<backfill(Column(df, 1, 1), limit), backfill(Column(df, 2, 1), limit),
                  backfill(Column(df, 3, 1), limit), backfill(Column(df, 4, 1), limit)>>
    IN  FromColumns(cols, 1, Len(df))

smooth_ForwardFirst(b, pres) ==
    fillna_bfill(fillna_ffill(mask_absent(DataFrame(b), pres), FillLimit), FillLimit)

smooth_BackwardOnly(b, pres) ==
    fillna_bfill(mask_absent(DataFrame(b), pres), FillLimit)

smooth_Limit3(b, pres) ==
    fillna_ffill(fillna_bfill(mask_absent(DataFrame(b), pres), FillLimit + 1), FillLimit + 1)

smooth_KeepMasked(b, pres) ==
    mask_absent(fillna_ffill(fillna_bfill(mask_absent(DataFrame(b), pres), FillLimit), FillLimit), pres)

\* The smoothed DataFrame: lines 402 to 405.
smooth(b, pres) ==
    fillna_ffill(fillna_bfill(mask_absent(DataFrame(b), pres), FillLimit), FillLimit)

\* ~df.isna().any(axis=1).values
not_any_isna(df) == [t \in 1..Len(df) |-> \A c \in 1..4 : ~df[t][c].isna]

-----------------------------------------------------------------------------
(* Method names and the lookup tables.                                      *)

\* The names of the tracking methods, as sequences of characters: one of the
\* branches of TrackingBbox.make tests a name with the substring operator in.
DeepSortYOLOv4 == <<"D", "e", "e", "p", "S", "o", "r", "t", "Y", "O", "L", "O", "v", "4">>
MMTrack_tracktor == <<"M", "M", "T", "r", "a", "c", "k", "_", "t", "r", "a", "c", "k", "t", "o", "r">>
FairMOT == <<"F", "a", "i", "r", "M", "O", "T">>
TransTrack == <<"T", "r", "a", "n", "s", "T", "r", "a", "c", "k">>
TraDeS == <<"T", "r", "a", "D", "e", "S">>
MMTrack_deepsort == <<"M", "M", "T", "r", "a", "c", "k", "_", "d", "e", "e", "p", "s", "o", "r", "t">>
MMTrack_bytetrack == <<"M", "M", "T", "r", "a", "c", "k", "_", "b", "y", "t", "e", "t", "r", "a", "c", "k">>

\* Names that are in no contents list.
MMTrack == <<"M", "M", "T", "r", "a", "c", "k">>
tracktor == <<"t", "r", "a", "c", "k", "t", "o", "r">>
UnknownAlgo == <<"U", "n", "k", "n", "o", "w", "n", "A", "l", "g", "o">>

Row(id, name) == [id |-> id, name |-> name]

\* The contents of the lookup tables. BottomUpMethodLookup has the name as
\* its primary key.
TrackingBboxMethodLookup_contents ==
    {Row(0, DeepSortYOLOv4), Row(1, MMTrack_tracktor), Row(2, FairMOT), Row(3, TransTrack),
     Row(4, TraDeS), Row(5, MMTrack_deepsort), Row(6, MMTrack_bytetrack)}
TopDownMethodLookup_contents == {Row(0, "MMPose"), Row(1, "MMPoseWholebody")}
LiftingMethodLookup_contents == {Row(0, "GastNet"), Row(1, "VideoPose3D"), Row(2, "PoseAug")}
SMPLMethodLookup_contents ==
    {Row(0, "VIBE"), Row(1, "MEVA"), Row(2, "ProHMR"), Row(3, "Expose"), Row(4, "PARE"),
     Row(5, "PIXIE"), Row(6, "ProHMR_MMPose")}
BottomUpMethodLookup_contents == {Row("OpenPose", "OpenPose"), Row("MMPose", "MMPose")}

PluggableStages == {"TrackingBbox", "TopDownPerson", "LiftingPerson", "SMPLPerson", "BottomUpPeople"}

contents(stage) ==
    CASE stage = "TrackingBbox" -> TrackingBboxMethodLookup_contents
      [] stage = "TopDownPerson" -> TopDownMethodLookup_contents
      [] stage = "LiftingPerson" -> LiftingMethodLookup_contents
      [] stage = "SMPLPerson" -> SMPLMethodLookup_contents
      [] stage = "BottomUpPeople" -> BottomUpMethodLookup_contents

\* Rows a user may add to a lookup table after its declaration.
ExtraRows(stage) ==
    CASE stage = "TrackingBbox" ->
            {Row(7, MMTrack), Row(7, tracktor), Row(7, <<>>), Row(7, UnknownAlgo)}
      [] stage = "TopDownPerson" -> {Row(2, "UnknownAlgo")}
      [] stage = "LiftingPerson" -> {Row(3, "RIE"), Row(3, "UnknownAlgo")}
      [] stage = "SMPLPerson" -> {Row(7, "UnknownAlgo")}
      [] stage = "BottomUpPeople" -> {Row("UnknownAlgo", "UnknownAlgo")}

\* A method id that no lookup row has.
NoLookupId == 9

\* The method table of the stage references its lookup table (->), or only
\* holds an int.
ReferencesLookup(stage) == stage \in {"LiftingPerson", "SMPLPerson", "BottomUpPeople"}

NoMake == [called |-> FALSE, found |-> FALSE, name |-> "", backend |-> "none",
           error |-> "none", inserted |-> FALSE]

\* No method is requested.
MethodsIdle ==
    /\ lookup = [stage \in PluggableStages |-> contents(stage)]
    /\ method_key = [stage |-> "none", method |-> 0]
    /\ computed = FALSE
    /\ last_make = NoMake

-----------------------------------------------------------------------------
(* PersonBbox.make as one step.                                             *)

\* Short videos over every kind of frame, and longer ones of a single track.
RichInputs ==
    {[tracks |-> [t \in 1..n |-> Detections(t, ids[t])], keep_tracks |-> k] :
        <<n, ids, k>> \in
            UNION {UNION {{<<n, ids, k>> : ids \in [1..n -> RichIdLists]} :
                          k \in RichKeepTracks} : n \in 0..MaxRichFrames}}
LongInputs ==
    {[tracks |-> [t \in 1..n |-> Detections(t, ids[t])], keep_tracks |-> k] :
        <<n, ids, k>> \in
            UNION {UNION {{<<n, ids, k>> : ids \in [1..n -> LongIdLists]} :
                          k \in LongKeepTracks} : n \in 0..MaxFrames}}
BboxInputs == RichInputs \cup LongInputs

\* No PersonBbox.make is under way.
BboxIdle ==
    /\ tracks = <<>>
    /\ keep_tracks = {}
    /\ pb_pc = "idle"
    /\ present = <<>>
    /\ bbox = <<>>
    /\ key_present = <<>>
    /\ key_bbox = <<>>

\* No make has created a file.
FilesIdle ==
    /\ fs = {}
    /\ fm_calls = 0
    /\ fm_last = [stage |-> "none", fault |-> "none", exit |-> "none", inserted |-> FALSE]

\* The tables are empty and populate has dispatched nothing.
SchedIdle ==
    /\ Video = {}
    /\ VideoInfo = {}
    /\ TrackingBboxMethod = {}
    /\ TrackingBbox = {}
    /\ PersonBboxValid = {}
    /\ PersonBbox = {}
    /\ DetectedFrames = {}
    /\ BestDetectedFrames = {}
    /\ last_dispatch = [stage |-> "none", key |-> <<>>, ready |-> TRUE]

\* populate has called no make and the computed tables hold no row.
NoCall == [stage |-> "none", key |-> <<>>, pc |-> 0, exit |-> "none",
           raised_at |-> "none", inserted |-> <<>>, before |-> {}]
MakeIdle ==
    /\ mk = NoCall
    /\ mk_rows = {}

\* No make has matched keypoints to a bbox.
\* Every stored value is a record [kind, id]; None has no id.
Value(kind, id) == [kind |-> kind, id |-> id]
Null == Value("None", 0)
MatchIdle ==
    /\ matched = <<>>
    /\ mt_pc = "idle"
    /\ mt_key = [stage |-> "none"]

\* No DetectedFrames.make is under way.
StatsIdle ==
    /\ df_pc = "idle"
    /\ df_key = [video_subject_id |-> 0]

\* No table holds a row.
GraphIdle ==
    /\ populated = {}
    /\ gr_last = [stage |-> "none", missing |-> {}]

\* No add_path block was entered.
PathIdle ==
    /\ sys_path = <<>>
    /\ blocks = <<>>
    /\ ap_enters = 0
    /\ ap_last = [left |-> FALSE]

ExtraIdle == MakeIdle /\ MatchIdle /\ StatsIdle /\ GraphIdle /\ PathIdle

BboxInit ==
    /\ FilesIdle
    /\ SchedIdle
    /\ MethodsIdle
    /\ ExtraIdle
    /\ \E inp \in BboxInputs :
          /\ tracks = inp.tracks
          /\ keep_tracks = inp.keep_tracks
    /\ pb_pc = "ready"
    /\ present = <<>>
    /\ bbox = <<>>
    /\ key_present = <<>>
    /\ key_bbox = <<>>

PersonBbox_make ==
    /\ pb_pc = "ready"
    /\ LET LD == extract_person_track(tracks, keep_tracks)
       IN  \/ \* LD[0] of an empty list: IndexError, nothing is inserted
              /\ Len(LD) = 0
              /\ pb_pc' = "raised"
              /\ UNCHANGED <<present, bbox, key_present, key_bbox>>
           \/ /\ Len(LD) > 0
              /\ LET pres == [t \in 1..Len(LD) |-> LD[t].present]
                     bb == [t \in 1..Len(LD) |-> LD[t].bbox]
                     df == smooth(bb, pres)
                 IN  /\ present' = pres
                     /\ bbox' = bb
                     /\ key_present' = not_any_isna(df)
                     /\ key_bbox' = df
              /\ pb_pc' = "done"
    /\ UNCHANGED <<tracks, keep_tracks>>
    /\ UNCHANGED <<fileVars, schedVars, methodVars, extraVars>>

BboxNext == PersonBbox_make

SpecBbox == BboxInit /\ [][BboxNext]_vars

-----------------------------------------------------------------------------
(* Transient files of the stages' make methods. File(n, tag) is a file made *)
(* by the n-th make call; a make is one step, its exit path an input.       *)

File(n, tag) == [call |-> n, tag |-> tag]

\* Video.get_robust_reader(key, return_cap=False): the fetched video is moved
\* into a temporary file; when a frame cannot be read, compress transcodes it
\* into a second temporary file, which is returned in its place.
get_robust_reader(n, transcode) ==
    IF transcode
    THEN [created |-> {File(n, "video"), File(n, "transcoded")}, video |-> File(n, "transcoded")]
    ELSE [created |-> {File(n, "video")}, video |-> File(n, "video")]

Raised(left) == [left |-> left, exit |-> "raised", inserted |-> FALSE]
Returned(left) == [left |-> left, exit |-> "returned", inserted |-> TRUE]

TrackingBboxFaults == {"none", "lookup", "unsupported", "backend", "insert1"}

\* TrackingBbox.make: the files left behind and the exit, by exit path.
TrackingBbox_make(n, transcode, fault) ==
    LET r == get_robust_reader(n, transcode)
    IN  CASE fault = "lookup" -> Raised(r.created)
          [] fault = "unsupported" -> Raised(r.created \ {r.video})
          [] fault = "backend" -> Raised(r.created)
          [] fault = "insert1" -> Raised(r.created)
          [] OTHER -> Returned(r.created \ {r.video})

OpenPoseFaults == {"none", "environ", "backend", "insert1"}

\* OpenPose.make: the video is materialized before os.environ is read.
OpenPose_make(n, transcode, fault) ==
    LET r == get_robust_reader(n, transcode)
    IN  CASE fault = "environ" -> Raised(r.created)
          [] fault = "backend" -> Raised(r.created)
          [] fault = "insert1" -> Raised(r.created)
          [] OTHER -> Returned(r.created \ {r.video})

CenterHMRFaults == {"none", "environ", "backend", "insert1"}

\* CenterHMR.make: os.environ is read before the video is materialized.
CenterHMR_make(n, transcode, fault) ==
    LET r == get_robust_reader(n, transcode)
    IN  CASE fault = "environ" -> Raised({})
          [] fault = "backend" -> Raised(r.created)
          [] fault = "insert1" -> Raised(r.created)
          [] OTHER -> Returned(r.created \ {r.video})

SMPLPersonVideoFaults == {"none", "lookup", "callback", "overlay", "insert1"}

\* SMPLPersonVideo.make: the blurred video is fetched and the output file made
\* after the callback is built; only the fetched video is removed at the end.
SMPLPersonVideo_make(n, fault) ==
    LET video == File(n, "attach")
        out_file_name == File(n, "out")
    IN  CASE fault = "lookup" -> Raised({})
          [] fault = "callback" -> Raised({})
          [] fault = "overlay" -> Raised({video, out_file_name})
          [] fault = "insert1" -> Raised({video, out_file_name})
          [] OTHER -> Returned({video, out_file_name} \ {video})

FilesInit == BboxIdle /\ FilesIdle /\ SchedIdle /\ MethodsIdle /\ ExtraIdle

\* A make call ends: its leftover files stay on disk.
EndMake(stage, fault, res) ==
    /\ fs' = fs \cup res.left
    /\ fm_calls' = fm_calls + 1
    /\ fm_last' = [stage |-> stage, fault |-> fault, exit |-> res.exit, inserted |-> res.inserted]
    /\ UNCHANGED <<bboxVars, schedVars, methodVars, extraVars>>

TrackingBbox_make_call ==
    /\ fm_calls < MaxMakeCalls
    /\ \E transcode \in BOOLEAN, fault \in TrackingBboxFaults :
          EndMake("TrackingBbox", fault, TrackingBbox_make(fm_calls + 1, transcode, fault))

OpenPose_make_call ==
    /\ fm_calls < MaxMakeCalls
    /\ \E transcode \in BOOLEAN, fault \in OpenPoseFaults :
          EndMake("OpenPose", fault, OpenPose_make(fm_calls + 1, transcode, fault))

CenterHMR_make_call ==
    /\ fm_calls < MaxMakeCalls
    /\ \E transcode \in BOOLEAN, fault \in CenterHMRFaults :
          EndMake("CenterHMR", fault, CenterHMR_make(fm_calls + 1, transcode, fault))

SMPLPersonVideo_make_call ==
    /\ fm_calls < MaxMakeCalls
    /\ \E fault \in SMPLPersonVideoFaults :
          EndMake("SMPLPersonVideo", fault, SMPLPersonVideo_make(fm_calls + 1, fault))

FilesNext ==
    \/ TrackingBbox_make_call
    \/ OpenPose_make_call
    \/ CenterHMR_make_call
    \/ SMPLPersonVideo_make_call

SpecFiles == FilesInit /\ [][FilesNext]_vars

-----------------------------------------------------------------------------
(* The tables and populate. A key is a record of primary-key fields; a      *)
(* populate step takes one key of key_source that has no row in the target  *)
(* and calls make for it.                                                   *)

Filenames == {"a.mp4"}
TrackingMethods == {0}
SubjectIds == {-1, 0, 1}
FractionsFound == {0, 1}

VideoKeys == {[filename |-> f] : f \in Filenames}
MethodKeys == {[filename |-> f, tracking_method |-> m] : f \in Filenames, m \in TrackingMethods}
SubjectKeys ==
    {[filename |-> f, tracking_method |-> m, video_subject_id |-> i] :
        f \in Filenames, m \in TrackingMethods, i \in SubjectIds}

\* The projection of a key on the fields of an upstream table.
VideoOf(k) == [filename |-> k.filename]
MethodOf(k) == [filename |-> k.filename, tracking_method |-> k.tracking_method]

DetectedKeys == {r.key : r \in DetectedFrames}

\* key_source of each computed table: the default (the join of the primary
\* parents) where the class defines none.
VideoInfo_key_source == Video
TrackingBbox_key_source == TrackingBboxMethod
PersonBbox_key_source == {k \in PersonBboxValid : k.video_subject_id >= 0}
DetectedFrames_key_source == {k \in PersonBboxValid : k.video_subject_id >= 0}
BestDetectedFrames_key_source == {v \in Video : \E k \in DetectedKeys : VideoOf(k) = v}

\* key_source - target: the keys populate calls make for.
VideoInfo_todo == VideoInfo_key_source \ VideoInfo
TrackingBbox_todo == TrackingBbox_key_source \ TrackingBbox
PersonBbox_todo == PersonBbox_key_source \ PersonBbox
DetectedFrames_todo == DetectedFrames_key_source \ DetectedKeys
BestDetectedFrames_todo_ExactKey == BestDetectedFrames_key_source \ BestDetectedFrames
BestDetectedFrames_todo ==
    {v \in BestDetectedFrames_key_source : ~\E k \in BestDetectedFrames : VideoOf(k) = v}

\* A matching row exists in every upstream table the definition declares.
VideoInfo_ready(k) == k \in Video
TrackingBbox_ready(k) == k \in TrackingBboxMethod
PersonBbox_ready(k) == k \in PersonBboxValid
DetectedFrames_ready(k) == k \in PersonBboxValid /\ VideoOf(k) \in VideoInfo
BestDetectedFrames_ready(v) == \E k \in DetectedKeys : VideoOf(k) = v

SchedInit == BboxIdle /\ FilesIdle /\ SchedIdle /\ MethodsIdle /\ ExtraIdle

Dispatch(stage, k, ready) == last_dispatch' = [stage |-> stage, key |-> k, ready |-> ready]

\* Video.insert1: a manual table.
Video_insert ==
    /\ \E k \in VideoKeys \ Video : Video' = Video \cup {k}
    /\ UNCHANGED <<VideoInfo, TrackingBboxMethod, TrackingBbox, PersonBboxValid,
                   PersonBbox, DetectedFrames, BestDetectedFrames, last_dispatch>>
    /\ UNCHANGED <<bboxVars, fileVars, methodVars, extraVars>>

\* TrackingBboxMethod.insert1: a manual table that references Video.
TrackingBboxMethod_insert ==
    /\ \E k \in MethodKeys \ TrackingBboxMethod :
          /\ VideoOf(k) \in Video
          /\ TrackingBboxMethod' = TrackingBboxMethod \cup {k}
    /\ UNCHANGED <<Video, VideoInfo, TrackingBbox, PersonBboxValid,
                   PersonBbox, DetectedFrames, BestDetectedFrames, last_dispatch>>
    /\ UNCHANGED <<bboxVars, fileVars, methodVars, extraVars>>

\* PersonBboxValid.insert1: a manual table that references TrackingBbox.
PersonBboxValid_insert ==
    /\ \E k \in SubjectKeys \ PersonBboxValid :
          /\ MethodOf(k) \in TrackingBbox
          /\ PersonBboxValid' = PersonBboxValid \cup {k}
    /\ UNCHANGED <<Video, VideoInfo, TrackingBboxMethod, TrackingBbox,
                   PersonBbox, DetectedFrames, BestDetectedFrames, last_dispatch>>
    /\ UNCHANGED <<bboxVars, fileVars, methodVars, extraVars>>

\* populate of VideoInfo: make inserts the key.
VideoInfo_populate ==
    /\ \E k \in VideoInfo_todo :
          /\ Dispatch("VideoInfo", k, VideoInfo_ready(k))
          /\ VideoInfo' = VideoInfo \cup {k}
    /\ UNCHANGED <<Video, TrackingBboxMethod, TrackingBbox, PersonBboxValid,
                   PersonBbox, DetectedFrames, BestDetectedFrames>>
    /\ UNCHANGED <<bboxVars, fileVars, methodVars, extraVars>>

\* populate of TrackingBbox: make inserts the key unless the tracker raises.
TrackingBbox_populate ==
    /\ \E k \in TrackingBbox_todo, raises \in BOOLEAN :
          /\ Dispatch("TrackingBbox", k, TrackingBbox_ready(k))
          /\ TrackingBbox' = IF raises THEN TrackingBbox ELSE TrackingBbox \cup {k}
    /\ UNCHANGED <<Video, VideoInfo, TrackingBboxMethod, PersonBboxValid,
                   PersonBbox, DetectedFrames, BestDetectedFrames>>
    /\ UNCHANGED <<bboxVars, fileVars, methodVars, extraVars>>

\* populate of PersonBbox: make inserts the key unless tracks has no frame.
PersonBbox_populate ==
    /\ \E k \in PersonBbox_todo, raises \in BOOLEAN :
          /\ Dispatch("PersonBbox", k, PersonBbox_ready(k))
          /\ PersonBbox' = IF raises THEN PersonBbox ELSE PersonBbox \cup {k}
    /\ UNCHANGED <<Video, VideoInfo, TrackingBboxMethod, TrackingBbox, PersonBboxValid,
                   DetectedFrames, BestDetectedFrames>>
    /\ UNCHANGED <<bboxVars, fileVars, methodVars, extraVars>>

DetectedFrames_populate_Replace ==
    /\ \E k \in DetectedFrames_key_source, f \in FractionsFound :
          /\ Dispatch("DetectedFrames", k, DetectedFrames_ready(k))
          /\ DetectedFrames' =
                IF VideoOf(k) \in VideoInfo
                THEN {r \in DetectedFrames : r.key # k} \cup {[key |-> k, fraction_found |-> f]}
                ELSE DetectedFrames
    /\ UNCHANGED <<Video, VideoInfo, TrackingBboxMethod, TrackingBbox, PersonBboxValid,
                   PersonBbox, BestDetectedFrames>>
    /\ UNCHANGED <<bboxVars, fileVars, methodVars, extraVars>>

\* populate of DetectedFrames: make computes the statistics and calls insert1,
\* which raises when the VideoInfo row the key references does not exist.
DetectedFrames_populate ==
    /\ \E k \in DetectedFrames_todo, f \in FractionsFound :
          /\ Dispatch("DetectedFrames", k, DetectedFrames_ready(k))
          /\ DetectedFrames' =
                IF VideoOf(k) \in VideoInfo
                THEN DetectedFrames \cup {[key |-> k, fraction_found |-> f]}
                ELSE DetectedFrames
    /\ UNCHANGED <<Video, VideoInfo, TrackingBboxMethod, TrackingBbox, PersonBboxValid,
                   PersonBbox, BestDetectedFrames>>
    /\ UNCHANGED <<bboxVars, fileVars, methodVars, extraVars>>

Best_LastOnTies(rows) ==
    CHOOSE r \in rows :
        \A q \in rows :
            \/ q.fraction_found < r.fraction_found
            \/ /\ q.fraction_found = r.fraction_found
               /\ q.key.video_subject_id <= r.key.video_subject_id

\* np.argmax over the rows in primary-key order: the first row with the
\* largest fraction_found.
Best(rows) ==
    CHOOSE r \in rows :
        \A q \in rows :
            \/ q.fraction_found < r.fraction_found
            \/ /\ q.fraction_found = r.fraction_found
               /\ q.key.video_subject_id >= r.key.video_subject_id

\* populate of BestDetectedFrames: make inserts the key of the best row.
BestDetectedFrames_populate ==
    /\ \E v \in BestDetectedFrames_todo :
          /\ Dispatch("BestDetectedFrames", v, BestDetectedFrames_ready(v))
          /\ LET rows == {r \in DetectedFrames : VideoOf(r.key) = v}
             IN  BestDetectedFrames' = BestDetectedFrames \cup {Best(rows).key}
    /\ UNCHANGED <<Video, VideoInfo, TrackingBboxMethod, TrackingBbox, PersonBboxValid,
                   PersonBbox, DetectedFrames>>
    /\ UNCHANGED <<bboxVars, fileVars, methodVars, extraVars>>

SchedNext ==
    \/ Video_insert
    \/ TrackingBboxMethod_insert
    \/ PersonBboxValid_insert
    \/ VideoInfo_populate
    \/ TrackingBbox_populate
    \/ PersonBbox_populate
    \/ DetectedFrames_populate
    \/ BestDetectedFrames_populate

SpecSched == SchedInit /\ [][SchedNext]_vars

-----------------------------------------------------------------------------
(* The make of the stages with several methods: which backend runs.         *)

\* a in b, for two strings.
IsSubstring(a, b) ==
    \E i \in 0..(Len(b) - Len(a)) : SubSeq(b, i + 1, i + Len(a)) = a

Run(backend) == [backend |-> backend, error |-> "none"]
Fail(error) == [backend |-> "none", error |-> error]

TrackingBbox_select_Equal(name) ==
    IF name = DeepSortYOLOv4 THEN Run("tracking_bounding_boxes")
    ELSE IF name = MMTrack_tracktor THEN Run("mmtrack_bounding_boxes tracktor")
    ELSE IF name = MMTrack_deepsort THEN Run("mmtrack_bounding_boxes deepsort")
    ELSE IF name = MMTrack_bytetrack THEN Run("mmtrack_bounding_boxes bytetrack")
    ELSE IF name = FairMOT THEN Run("fairmot_bounding_boxes")
    ELSE IF name = TransTrack THEN Run("transtrack_bounding_boxes")
    ELSE IF name = TraDeS THEN Run("trades_bounding_boxes")
    ELSE Fail("unsupported")

\* The if/elif chain of TrackingBbox.make.
TrackingBbox_select(name) ==
    IF name = DeepSortYOLOv4 THEN Run("tracking_bounding_boxes")
    ELSE IF IsSubstring(name, MMTrack_tracktor) THEN Run("mmtrack_bounding_boxes tracktor")
    ELSE IF name = MMTrack_deepsort THEN Run("mmtrack_bounding_boxes deepsort")
    ELSE IF name = MMTrack_bytetrack THEN Run("mmtrack_bounding_boxes bytetrack")
    ELSE IF name = FairMOT THEN Run("fairmot_bounding_boxes")
    ELSE IF name = TransTrack THEN Run("transtrack_bounding_boxes")
    ELSE IF name = TraDeS THEN Run("trades_bounding_boxes")
    ELSE Fail("unsupported")

\* The if/elif chain of TopDownPerson.make.
TopDownPerson_select(name) ==
    IF name = "MMPose" THEN Run("mmpose_top_down_person")
    ELSE IF name = "MMPoseWholebody" THEN Run("mmpose_whole_body")
    ELSE Fail("unsupported")

\* The if/elif chain of LiftingPerson.make.
LiftingPerson_select(name) ==
    IF name = "RIE" THEN Run("process_rie")
    ELSE IF name = "GastNet" THEN Run("process_gastnet")
    ELSE IF name = "VideoPose3D" THEN Run("process_videopose3d")
    ELSE IF name = "PoseAug" THEN Run("process_poseaug")
    ELSE Fail("unsupported")

\* The if/elif chain of SMPLPerson.make.
SMPLPerson_select(name) ==
    IF name = "VIBE" THEN Run("process_vibe")
    ELSE IF name = "MEVA" THEN Run("process_meva")
    ELSE IF name = "ProHMR" THEN Run("process_prohmr")
    ELSE IF name = "ProHMR_MMPose" THEN Run("process_prohmr_mmpose")
    ELSE IF name = "Expose" THEN Run("process_expose")
    ELSE IF name = "PARE" THEN Run("process_pare")
    ELSE IF name = "PIXIE" THEN Run("process_pixie")
    ELSE Fail("unsupported")

\* The if/elif chain of BottomUpPeople.make.
BottomUpPeople_select(name) ==
    IF name = "OpenPose" THEN Fail("not implemented yet")
    ELSE IF name = "MMPose" THEN Run("mmpose_bottom_up")
    ELSE Fail("unsupported")

select(stage, name) ==
    CASE stage = "TrackingBbox" -> TrackingBbox_select(name)
      [] stage = "TopDownPerson" -> TopDownPerson_select(name)
      [] stage = "LiftingPerson" -> LiftingPerson_select(name)
      [] stage = "SMPLPerson" -> SMPLPerson_select(name)
      [] stage = "BottomUpPeople" -> BottomUpPeople_select(name)

\* (Lookup & key): the rows of the stage's lookup table with the key's method.
LookupRows(stage, method) == {r \in lookup[stage] : r.id = method}

\* make(key) of a stage: the name comes from fetch1 on the lookup table, which
\* raises when no row matches (BottomUpPeople reads it from the key); the
\* chain selects the backend; insert1 follows a backend that returned.
make(stage, method) ==
    IF stage # "BottomUpPeople" /\ LookupRows(stage, method) = {}
    THEN [called |-> TRUE, found |-> FALSE, name |-> "", backend |-> "none",
          error |-> "fetch1", inserted |-> FALSE]
    ELSE LET name == IF stage = "BottomUpPeople" THEN method
                     ELSE (CHOOSE r \in LookupRows(stage, method) : TRUE).name
             sel == select(stage, name)
         IN  [called |-> TRUE, found |-> TRUE, name |-> name, backend |-> sel.backend,
              error |-> sel.error, inserted |-> sel.error = "none"]

MethodsInit == BboxIdle /\ FilesIdle /\ SchedIdle /\ MethodsIdle /\ ExtraIdle

\* A row is added to a lookup table; the id is its primary key.
Lookup_insert ==
    /\ \E stage \in PluggableStages : \E r \in ExtraRows(stage) :
          /\ \A q \in lookup[stage] : q.id # r.id
          /\ lookup' = [lookup EXCEPT ![stage] = @ \cup {r}]
    /\ UNCHANGED <<method_key, computed, last_make>>
    /\ UNCHANGED <<bboxVars, fileVars, schedVars, extraVars>>

\* A row is added to the method table of a stage: the requested method.
Method_insert ==
    /\ method_key.stage = "none"
    /\ \E stage \in PluggableStages :
          \E method \in {r.id : r \in lookup[stage]} \cup
                        (IF ReferencesLookup(stage) THEN {} ELSE {NoLookupId}) :
             method_key' = [stage |-> stage, method |-> method]
    /\ UNCHANGED <<lookup, computed, last_make>>
    /\ UNCHANGED <<bboxVars, fileVars, schedVars, extraVars>>

\* populate calls make for the requested method while it has no row.
Method_make ==
    /\ method_key.stage # "none"
    /\ ~computed
    /\ last_make' = make(method_key.stage, method_key.method)
    /\ computed' = last_make'.inserted
    /\ UNCHANGED <<lookup, method_key>>
    /\ UNCHANGED <<bboxVars, fileVars, schedVars, extraVars>>

MethodsNext ==
    \/ Lookup_insert
    \/ Method_insert
    \/ Method_make

SpecMethods == MethodsInit /\ [][MethodsNext]_vars

-----------------------------------------------------------------------------
(* A make call under populate, statement by statement. populate opens a     *)
(* transaction, calls make(key), commits when make returns and cancels the  *)
(* transaction when make raises. The steps of a make are its statements in  *)
(* the order of the source: "fetch1" a fetch from a table, "reader"         *)
(* Video.get_robust_reader, "mkstemp" tempfile.mkstemp and os.close,        *)
(* "select" the choice of a branch by method name, "backend" a wrapper      *)
(* call, "compute" the statements that fill the key, "insert1" and its      *)
(* variants the insert, "release" cap.release and "remove" os.remove.       *)

VideoInfo_steps_CleanupFirst == <<"fetch1", "compute", "release", "remove", "insert1">>
VideoInfo_steps == <<"fetch1", "compute", "insert1", "release", "remove">>
DetectedFrames_steps_EarlyReturn == <<"fetch1", "compute">>
DetectedFrames_steps == <<"fetch1", "fetch1", "fetch1", "compute", "insert1">>

ComputedStages ==
    {"VideoInfo", "BottomUpPeople", "OpenPose", "BlurredVideo", "TrackingBbox",
     "TrackingBboxVideo", "PersonBbox", "DetectedFrames", "BestDetectedFrames",
     "OpenPosePerson", "OpenPosePersonVideo", "TopDownPerson", "SkeletonAction",
     "SkeletonActionVideo", "LiftingPerson", "LiftingPersonVideo", "SMPLPerson",
     "SMPLPersonVideo", "CenterHMR", "CenterHMRPerson", "CenterHMRPersonVideo",
     "HumorPerson", "HumorPersonVideo", "TopDownPersonVideo"}

steps(stage) ==
    CASE stage = "VideoInfo" -> VideoInfo_steps
      [] stage = "BottomUpPeople" ->
          <<"select", "backend", "insert1">>
      [] stage = "OpenPose" ->
          <<"reader", "backend", "compute", "insert1", "remove">>
      [] stage = "BlurredVideo" ->
          <<"backend", "insert1", "remove">>
      [] stage = "TrackingBbox" ->
          <<"reader", "fetch1", "select", "backend", "compute", "insert1", "remove">>
      [] stage = "TrackingBboxVideo" ->
          <<"fetch1", "fetch1", "mkstemp", "backend", "insert1", "remove", "remove">>
      [] stage = "PersonBbox" ->
          <<"fetch1", "fetch1", "compute", "insert1">>
      [] stage = "DetectedFrames" -> DetectedFrames_steps
      [] stage = "BestDetectedFrames" ->
          <<"fetch1", "compute", "insert1_best">>
      [] stage = "OpenPosePerson" ->
          <<"fetch1", "fetch1", "compute", "insert1">>
      [] stage = "OpenPosePersonVideo" ->
          <<"fetch1", "fetch1", "mkstemp", "fetch1", "fetch1", "mkstemp", "backend", "insert1", "remove", "remove">>
      [] stage = "TopDownPerson" ->
          <<"fetch1", "select", "backend", "insert1">>
      [] stage = "SkeletonAction" ->
          <<"backend", "insert1_res">>
      [] stage = "SkeletonActionVideo" ->
          <<"fetch1", "fetch1", "fetch1", "fetch1", "mkstemp", "backend", "insert1", "remove", "remove">>
      [] stage = "LiftingPerson" ->
          <<"fetch1", "select", "backend", "insert1">>
      [] stage = "LiftingPersonVideo" ->
          <<"fetch1", "fetch1", "fetch1", "fetch1", "mkstemp", "backend", "insert1", "remove", "remove">>
      [] stage = "SMPLPerson" ->
          <<"fetch1", "select", "backend", "compute", "insert1_res">>
      [] stage = "SMPLPersonVideo" ->
          <<"fetch1", "fetch1", "select", "fetch1", "mkstemp", "backend", "insert1", "remove">>
      [] stage = "CenterHMR" ->
          <<"reader", "backend", "compute", "insert1", "remove">>
      [] stage = "CenterHMRPerson" ->
          <<"fetch1", "fetch1", "fetch1", "compute", "insert1">>
      [] stage = "CenterHMRPersonVideo" ->
          <<"fetch1", "fetch1", "mkstemp", "fetch1", "mkstemp", "backend", "insert1", "remove", "remove">>
      [] stage = "HumorPerson" ->
          <<"backend", "insert1_res">>
      [] stage = "HumorPersonVideo" ->
          <<"backend", "insert1">>
      [] stage = "TopDownPersonVideo" ->
          <<"fetch1", "fetch1", "fetch1", "mkstemp", "backend", "insert1", "remove", "remove">>

\* The keys populate dispatches: a key names its video.
MakeKeys == {[filename |-> "a.mp4"], [filename |-> "b.mp4"]}

\* BestDetectedFrames.make: res, the key of the best row of (DetectedFrames & key).
best_key(key) == [filename |-> key.filename, video_subject_id |-> 0]
\* What a wrapper returns to SMPLPerson, HumorPerson and SkeletonAction: the
\* key it was given, with the output fields added.
wrapper_result(key) == key

IsInsert(step) == step \in {"insert1", "insert1_best", "insert1_res"}
\* The primary key of the row a step inserts for the dispatched key.
inserted_pk(step, key) ==
    CASE step = "insert1" -> key
      [] step = "insert1_best" -> best_key(key)
      [] step = "insert1_res" -> wrapper_result(key)

\* pk agrees with key on every field key has.
Agrees(pk, key) ==
    \A f \in DOMAIN key : f \in DOMAIN pk /\ pk[f] = key[f]

\* The rows a make of the stage that returned for key has left committed.
committed_rows(stage, key) ==
    {[stage |-> stage, pk |-> inserted_pk(steps(stage)[i], key)] :
        i \in {j \in 1..Len(steps(stage)) : IsInsert(steps(stage)[j])}}

\* The committed rows are those of an earlier populate: none, or one row.
MakeInit ==
    /\ BboxIdle /\ FilesIdle /\ SchedIdle /\ MethodsIdle /\ MatchIdle /\ StatsIdle /\ GraphIdle /\ PathIdle
    /\ mk = NoCall
    /\ mk_rows \in {{}} \cup {{r} : r \in UNION {committed_rows(st, k) :
                                        st \in ComputedStages, k \in MakeKeys}}

\* populate: a key with no row in the target; start_transaction, make(key).
populate_dispatch ==
    /\ mk.exit = "none"
    /\ \E stage \in ComputedStages, key \in MakeKeys :
          /\ ~\E r \in mk_rows : r.stage = stage /\ Agrees(r.pk, key)
          /\ mk' = [stage |-> stage, key |-> key, pc |-> 1, exit |-> "running",
                    raised_at |-> "none", inserted |-> <<>>, before |-> mk_rows]
    /\ UNCHANGED mk_rows
    /\ UNCHANGED <<bboxVars, fileVars, schedVars, methodVars, matchVars, statVars, graphVars, pathVars>>

\* The next statement of make completes.
make_step ==
    /\ mk.exit = "running"
    /\ mk.pc <= Len(steps(mk.stage))
    /\ LET step == steps(mk.stage)[mk.pc]
       IN  mk' = [mk EXCEPT !.pc = @ + 1,
                            !.inserted = IF IsInsert(step)
                                         THEN Append(@, inserted_pk(step, mk.key))
                                         ELSE @]
    /\ UNCHANGED mk_rows
    /\ UNCHANGED <<bboxVars, fileVars, schedVars, methodVars, matchVars, statVars, graphVars, pathVars>>

\* The next statement of make raises.
make_raise ==
    /\ mk.exit = "running"
    /\ mk.pc <= Len(steps(mk.stage))
    /\ mk' = [mk EXCEPT !.exit = "raised", !.raised_at = steps(mk.stage)[mk.pc]]
    /\ UNCHANGED mk_rows
    /\ UNCHANGED <<bboxVars, fileVars, schedVars, methodVars, matchVars, statVars, graphVars, pathVars>>

\* make returns.
make_return ==
    /\ mk.exit = "running"
    /\ mk.pc > Len(steps(mk.stage))
    /\ mk' = [mk EXCEPT !.exit = "returned"]
    /\ UNCHANGED mk_rows
    /\ UNCHANGED <<bboxVars, fileVars, schedVars, methodVars, matchVars, statVars, graphVars, pathVars>>

\* populate: commit_transaction after make returned.
populate_commit ==
    /\ mk.exit = "returned"
    /\ mk_rows' = mk_rows \cup {[stage |-> mk.stage, pk |-> mk.inserted[i]] :
                                  i \in 1..Len(mk.inserted)}
    /\ mk' = [mk EXCEPT !.exit = "committed"]
    /\ UNCHANGED <<bboxVars, fileVars, schedVars, methodVars, matchVars, statVars, graphVars, pathVars>>

\* populate: cancel_transaction after make raised; the error is reported.
populate_cancel ==
    /\ mk.exit = "raised"
    /\ mk_rows' = mk_rows
    /\ mk' = [mk EXCEPT !.exit = "cancelled"]
    /\ UNCHANGED <<bboxVars, fileVars, schedVars, methodVars, matchVars, statVars, graphVars, pathVars>>

MakeNext ==
    \/ populate_dispatch
    \/ make_step
    \/ make_raise
    \/ make_return
    \/ populate_commit
    \/ populate_cancel

SpecMake == MakeInit /\ [][MakeNext]_vars

-----------------------------------------------------------------------------
(* OpenPosePerson.make and CenterHMRPerson.make: what is stored for a frame  *)
(* whose bbox the keypoint matcher matches to no candidate.                  *)

\* The candidates of a frame, by index.
Candidates == {Value("candidate", 0), Value("candidate", 1)}
\* match_keypoints_to_bbox: the keypoints and the index of the candidate that
\* matches the bbox, or Null for both.
match_keypoints_to_bbox(pick) ==
    IF pick = Null THEN <<Null, Null>> ELSE <<Value("keypoints", pick.id), pick>>

zeros == Value("zeros", 0)
nans == Value("nan", 0)
\* np.array of a list: a list that mixes arrays and None is ragged.
ragged(list) ==
    /\ \E t \in 1..Len(list) : list[t] = Null
    /\ \E t \in 1..Len(list) : list[t] # Null

MatchInit ==
    /\ BboxIdle /\ FilesIdle /\ SchedIdle /\ MethodsIdle /\ MakeIdle /\ StatsIdle /\ GraphIdle /\ PathIdle
    /\ matched \in UNION {[1..n -> Candidates \cup {Null}] : n \in 0..MaxMatchFrames}
    /\ mt_pc = "ready"
    /\ mt_key = [stage |-> "none"]

\* ragged_ok: whether the numpy of the build makes an object array of a ragged list.
OpenPosePerson_make(ragged_ok) ==
    /\ mt_pc = "ready"
    /\ LET res == [t \in 1..Len(matched) |-> match_keypoints_to_bbox(matched[t])]
           keypoints == [t \in 1..Len(res) |-> res[t][1]]
           openpose_ids == [t \in 1..Len(res) |-> res[t][2]]
       IN  IF ragged(keypoints) /\ ~ragged_ok
           THEN /\ mt_pc' = "raised"
                /\ mt_key' = [stage |-> "OpenPosePerson"]
           ELSE /\ mt_pc' = "done"
                /\ mt_key' =
                     [stage |-> "OpenPosePerson",
                      keypoints |-> keypoints,
                      openpose_ids |-> openpose_ids,
                      hand_keypoints |->
                          [t \in 1..Len(res) |->
                              IF openpose_ids[t] = Null
                              THEN zeros
                              ELSE Value("hand_keypoint", openpose_ids[t].id)]]
    /\ UNCHANGED matched
    /\ UNCHANGED <<bboxVars, fileVars, schedVars, methodVars, makeVars, statVars, graphVars, pathVars>>

CenterHMRPerson_params(ids, name) ==
    [t \in 1..Len(ids) |-> IF ids[t] # Null THEN Value(name, ids[t].id) ELSE nans]

CenterHMRPerson_make(ragged_ok) ==
    /\ mt_pc = "ready"
    /\ LET all_matches == [t \in 1..Len(matched) |-> match_keypoints_to_bbox(matched[t])]
           keypoints == [t \in 1..Len(all_matches) |-> all_matches[t][1]]
           centerhmr_ids == [t \in 1..Len(all_matches) |-> all_matches[t][2]]
       IN  IF ragged(keypoints) /\ ~ragged_ok
           THEN /\ mt_pc' = "raised"
                /\ mt_key' = [stage |-> "CenterHMRPerson"]
           ELSE /\ mt_pc' = "done"
                /\ mt_key' =
                     [stage |-> "CenterHMRPerson",
                      poses |-> CenterHMRPerson_params(centerhmr_ids, "body_pose"),
                      betas |-> CenterHMRPerson_params(centerhmr_ids, "betas"),
                      cams |-> CenterHMRPerson_params(centerhmr_ids, "cam"),
                      global_orients |-> CenterHMRPerson_params(centerhmr_ids, "global_orient"),
                      keypoints |-> keypoints,
                      centerhmr_ids |-> centerhmr_ids]
    /\ UNCHANGED matched
    /\ UNCHANGED <<bboxVars, fileVars, schedVars, methodVars, makeVars, statVars, graphVars, pathVars>>

OpenPosePerson_make_call == \E ragged_ok \in BOOLEAN : OpenPosePerson_make(ragged_ok)
CenterHMRPerson_make_call == \E ragged_ok \in BOOLEAN : CenterHMRPerson_make(ragged_ok)

MatchNext ==
    \/ OpenPosePerson_make_call
    \/ CenterHMRPerson_make_call

SpecMatch == MatchInit /\ [][MatchNext]_vars

-----------------------------------------------------------------------------
(* DetectedFrames.make as one step: the statistics of the kept track.       *)

\* extract_person_stats.process_timestamp: the detections carry no
\* 'confidence', so the confidence of a frame with the person is 1.0.
stats_process_timestamp(track_timestep) ==
    LET valid == SelectSeq(track_timestep, LAMBDA t : t.track_id \in keep_tracks)
        total_tracks == Len(track_timestep)
    IN  IF Len(valid) = 1
        THEN [present |-> TRUE, confidence |-> 1, others |-> total_tracks - 1]
        ELSE [present |-> FALSE, confidence |-> 0, others |-> total_tracks]

extract_person_stats(trks) == [t \in 1..Len(trks) |-> stats_process_timestamp(trks[t])]

\* np.sum of a boolean array.
RECURSIVE np_sum(_)
np_sum(a) == IF a = <<>> THEN 0 ELSE (IF Head(a) THEN 1 ELSE 0) + np_sum(Tail(a))

\* The subject ids of the dispatched key, and the frame counts of VideoInfo.
StatsSubjectIds == {-1, 0}

StatsInit ==
    /\ FilesIdle /\ SchedIdle /\ MethodsIdle /\ MakeIdle /\ MatchIdle /\ GraphIdle /\ PathIdle
    /\ \E inp \in RichInputs :
          /\ tracks = inp.tracks
          /\ keep_tracks = inp.keep_tracks
    /\ pb_pc = "idle"
    /\ present = <<>>
    /\ bbox = <<>>
    /\ key_present = <<>>
    /\ key_bbox = <<>>
    /\ df_pc = "ready"
    /\ df_key \in {[video_subject_id |-> i] : i \in StatsSubjectIds}

\* The fields set for a negative video_subject_id (lines 450-452) are set again
\* below. An array of no frame is a float array: ~present raises TypeError.
DetectedFrames_make ==
    /\ df_pc = "ready"
    /\ LET stats == extract_person_stats(tracks)
           np_present == [t \in 1..Len(stats) |-> stats[t].present]
           frames_detected == np_sum(np_present)
           frames_missed == np_sum([t \in 1..Len(stats) |-> ~np_present[t]])
       IN  IF Len(stats) = 0
           THEN /\ df_pc' = "raised"
                /\ df_key' = [video_subject_id |-> df_key.video_subject_id,
                              frames_detected |-> 0]
           ELSE /\ df_pc' = "done"
                /\ df_key' =
                     [video_subject_id |-> df_key.video_subject_id,
                      frames_detected |-> frames_detected,
                      frames_missed |-> frames_missed,
                      fraction_found |-> <<frames_detected, frames_missed + frames_detected>>,
                      median_confidence |-> IF frames_detected > 0 THEN 1 ELSE 0,
                      frame_data |-> stats]
    /\ UNCHANGED bboxVars
    /\ UNCHANGED <<fileVars, schedVars, methodVars, makeVars, matchVars, graphVars, pathVars>>

StatsNext == DetectedFrames_make

SpecStats == StatsInit /\ [][StatsNext]_vars

-----------------------------------------------------------------------------
(* The dependency graph: the tables each definition references, the tables  *)
(* each make fetches from, and populate over one video, method and subject. *)

ManualTables ==
    {"Video", "BottomUpMethodLookup", "BottomUpMethod", "TrackingBboxMethodLookup",
     "TrackingBboxMethod", "PersonBboxValid", "TopDownMethodLookup", "TopDownMethod",
     "LiftingMethodLookup", "LiftingMethod", "SMPLMethodLookup", "SMPLMethod"}

\* The tables the definition of a table references with "->".
Declared(table) ==
    CASE table \in {"VideoInfo", "OpenPose", "BlurredVideo", "CenterHMR",
                    "TrackingBboxMethod"} -> {"Video"}
      [] table = "BottomUpMethod" -> {"Video", "BottomUpMethodLookup"}
      [] table = "BottomUpPeople" -> {"BottomUpMethod"}
      [] table = "TrackingBbox" -> {"TrackingBboxMethod"}
      [] table = "TrackingBboxVideo" -> {"BlurredVideo", "TrackingBbox"}
      [] table = "PersonBboxValid" -> {"TrackingBbox"}
      [] table = "PersonBbox" -> {"PersonBboxValid"}
      [] table = "DetectedFrames" -> {"PersonBboxValid", "VideoInfo"}
      [] table = "BestDetectedFrames" -> {"DetectedFrames"}
      [] table = "OpenPosePerson" -> {"PersonBbox", "OpenPose"}
      [] table = "OpenPosePersonVideo" -> {"OpenPosePerson", "BlurredVideo"}
      [] table \in {"TopDownMethod"} -> {"PersonBbox"}
      [] table = "TopDownPerson" -> {"TopDownMethod"}
      [] table = "SkeletonAction" -> {"TopDownPerson"}
      [] table = "SkeletonActionVideo" -> {"SkeletonAction"}
      [] table = "LiftingMethod" -> {"TopDownPerson", "LiftingMethodLookup"}
      [] table = "LiftingPerson" -> {"LiftingMethod"}
      [] table = "LiftingPersonVideo" -> {"LiftingPerson", "BlurredVideo"}
      [] table = "SMPLMethod" -> {"PersonBbox", "SMPLMethodLookup"}
      [] table = "SMPLPerson" -> {"SMPLMethod"}
      [] table = "SMPLPersonVideo" -> {"SMPLPerson", "BlurredVideo"}
      [] table = "CenterHMRPerson" -> {"PersonBbox", "CenterHMR", "VideoInfo"}
      [] table = "CenterHMRPersonVideo" -> {"CenterHMRPerson", "BlurredVideo"}
      [] table = "HumorPerson" -> {"OpenPosePerson"}
      [] table = "HumorPersonVideo" -> {"HumorPerson"}
      [] table = "TopDownPersonVideo" -> {"TopDownPerson", "BlurredVideo"}
      [] OTHER -> {}

\* The tables the make of a stage fetches from for a key of its key_source.
Reads(stage) ==
    CASE stage \in {"VideoInfo", "OpenPose", "CenterHMR"} -> {"Video"}
      [] stage = "TrackingBbox" -> {"Video", "TrackingBboxMethodLookup"}
      [] stage = "TrackingBboxVideo" -> {"BlurredVideo", "TrackingBbox"}
      [] stage = "PersonBbox" -> {"TrackingBbox", "PersonBboxValid"}
      [] stage = "DetectedFrames" -> {"PersonBboxValid", "TrackingBbox"}
      [] stage = "BestDetectedFrames" -> {"DetectedFrames"}
      [] stage = "OpenPosePerson" -> {"OpenPose", "PersonBbox"}
      [] stage = "OpenPosePersonVideo" -> {"OpenPosePerson", "BlurredVideo"}
      [] stage = "TopDownPerson" -> {"TopDownMethodLookup"}
      [] stage = "SkeletonActionVideo" ->
            {"BlurredVideo", "TopDownPerson", "PersonBbox", "SkeletonAction"}
      [] stage = "LiftingPerson" -> {"LiftingMethodLookup"}
      [] stage = "LiftingPersonVideo" ->
            {"TopDownPerson", "LiftingPerson", "BlurredVideo", "VideoInfo"}
      [] stage = "SMPLPerson" -> {"SMPLMethodLookup"}
      [] stage = "SMPLPersonVideo" -> {"SMPLPerson", "SMPLMethodLookup", "BlurredVideo"}
      [] stage = "CenterHMRPerson" -> {"VideoInfo", "CenterHMR", "PersonBbox"}
      [] stage = "CenterHMRPersonVideo" -> {"CenterHMRPerson", "BlurredVideo"}
      [] stage = "TopDownPersonVideo" -> {"BlurredVideo", "TopDownPerson", "PersonBbox"}
      [] OTHER -> {}

\* The tables reached from a table along its references.
RECURSIVE Ancestors(_)
Ancestors(table) ==
    Declared(table) \cup UNION {Ancestors(parent) : parent \in Declared(table)}

\* The lookup tables that a method table references hold their contents, and
\* so the row of the method; a tracking or top-down method is a bare number
\* that may have no row in its lookup table.
GraphInit ==
    /\ BboxIdle /\ FilesIdle /\ SchedIdle /\ MethodsIdle
    /\ MakeIdle /\ MatchIdle /\ StatsIdle /\ PathIdle
    /\ populated = {"BottomUpMethodLookup", "LiftingMethodLookup", "SMPLMethodLookup"}
    /\ gr_last = [stage |-> "none", missing |-> {}]

\* insert1 into a manual or lookup table: the referenced rows exist.
table_insert ==
    /\ \E table \in ManualTables \ populated :
          /\ Declared(table) \subseteq populated
          /\ populated' = populated \cup {table}
    /\ UNCHANGED gr_last
    /\ UNCHANGED <<bboxVars, fileVars, schedVars, methodVars, makeVars, matchVars, statVars, pathVars>>

\* populate of a stage whose key is ready by its definition: make fetches, and
\* inserts the row when every fetch1 found one.
graph_populate ==
    /\ \E stage \in ComputedStages \ populated :
          /\ Declared(stage) \subseteq populated
          /\ LET missing == Reads(stage) \ populated
             IN  /\ gr_last' = [stage |-> stage, missing |-> missing]
                 /\ populated' = IF missing = {} THEN populated \cup {stage} ELSE populated
    /\ UNCHANGED <<bboxVars, fileVars, schedVars, methodVars, makeVars, matchVars, statVars, pathVars>>

GraphNext ==
    \/ table_insert
    \/ graph_populate

SpecGraph == GraphInit /\ [][GraphNext]_vars

-----------------------------------------------------------------------------
(* env.add_path: a context manager that puts paths on sys.path for a block. *)

\* The arguments of add_path: one path, or a list of paths.
PathArgs ==
    {[list |-> FALSE, items |-> <<p>>] : p \in {"a", "b"}}
    \cup {[list |-> TRUE, items |-> l] :
             l \in {<<>>, <<"a">>, <<"b">>, <<"a", "a">>, <<"a", "b">>,
                    <<"b", "a">>, <<"b", "b">>}}

add_path_enter_Append(sp, path, i) ==
    sp \o path

\* __enter__: sys.path.insert(0, p) for the paths from the i-th on.
RECURSIVE add_path_enter(_, _, _)
add_path_enter(sp, path, i) ==
    IF i > Len(path) THEN sp ELSE add_path_enter(<<path[i]>> \o sp, path, i + 1)

\* __exit__: sys.path.remove(p) for the paths from the i-th on; remove takes
\* out the first entry equal to p and raises ValueError when there is none,
\* which ends the loop.
RECURSIVE add_path_exit(_, _, _)
add_path_exit(sp, path, i) ==
    IF i > Len(path) THEN sp
    ELSE IF \A j \in 1..Len(sp) : sp[j] # path[i] THEN sp
    ELSE LET first == CHOOSE j \in 1..Len(sp) :
                          sp[j] = path[i] /\ \A k \in 1..(j - 1) : sp[k] # path[i]
         IN  add_path_exit(SubSeq(sp, 1, first - 1) \o SubSeq(sp, first + 1, Len(sp)),
                           path, i + 1)

PathInit ==
    /\ BboxIdle /\ FilesIdle /\ SchedIdle /\ MethodsIdle
    /\ MakeIdle /\ MatchIdle /\ StatsIdle /\ GraphIdle
    /\ sys_path \in {<<>>, <<"x">>, <<"a", "x">>}
    /\ blocks = <<>>
    /\ ap_enters = 0
    /\ ap_last = [left |-> FALSE]

\* with add_path(arg): __init__ makes a list of a single path, then __enter__.
enter_block ==
    /\ ap_enters < MaxEnters
    /\ \E arg \in PathArgs :
          LET path == IF arg.list THEN arg.items ELSE <<arg.items[1]>>
              entered == add_path_enter(sys_path, path, 1)
          IN  /\ sys_path' = entered
              /\ blocks' = Append(blocks, [path |-> path, before |-> sys_path,
                                           entered |-> entered])
    /\ ap_enters' = ap_enters + 1
    /\ UNCHANGED ap_last
    /\ UNCHANGED <<bboxVars, fileVars, schedVars, methodVars, makeVars, matchVars,
                   statVars, graphVars>>

\* The body of a block takes one of the block's paths off sys.path:
\* sys.path.remove(p).
body_remove ==
    /\ blocks # <<>>
    /\ \E j \in 1..Len(sys_path) :
          /\ \E i \in 1..Len(blocks[Len(blocks)].path) :
                blocks[Len(blocks)].path[i] = sys_path[j]
          /\ sys_path' = add_path_exit(sys_path, <<sys_path[j]>>, 1)
    /\ UNCHANGED <<blocks, ap_enters, ap_last>>
    /\ UNCHANGED <<bboxVars, fileVars, schedVars, methodVars, makeVars, matchVars,
                   statVars, graphVars>>

\* The innermost block ends, by the end of its body or by an exception of the
\* body: __exit__ runs and returns None, so the exception goes on.
exit_block ==
    /\ blocks # <<>>
    /\ \E body_raised \in BOOLEAN :
          LET b == blocks[Len(blocks)]
              after == add_path_exit(sys_path, b.path, 1)
          IN  /\ sys_path' = after
              /\ ap_last' = [left |-> TRUE, path |-> b.path, before |-> b.before,
                             entered |-> b.entered, at_exit |-> sys_path,
                             after |-> after, exit_raised |-> FALSE,
                             body_raised |-> body_raised, propagated |-> body_raised]
    /\ blocks' = SubSeq(blocks, 1, Len(blocks) - 1)
    /\ UNCHANGED ap_enters
    /\ UNCHANGED <<bboxVars, fileVars, schedVars, methodVars, makeVars, matchVars,
                   statVars, graphVars>>

PathNext ==
    \/ enter_block
    \/ body_remove
    \/ exit_block

SpecPath == PathInit /\ [][PathNext]_vars

-----------------------------------------------------------------------------
(* Properties of PersonBbox.make, stated on the tracks input.               *)

Frames == 1..Len(tracks)
\* The detections of frame t whose track_id is in keep_tracks.
Kept(t) == {j \in 1..Len(tracks[t]) : tracks[t][j].track_id \in keep_tracks}
Valid(t) == Cardinality(Kept(t)) = 1
Missing(t) == ~Valid(t)
Duplicate(t) == Cardinality(Kept(t)) >= 2
KeptBox(t) == tracks[t][CHOOSE j \in Kept(t) : TRUE].tlhw
AsCells(box) == [c \in 1..4 |-> Num(box[c])]
NaNRow == [c \in 1..4 |-> NaN]
Done == pb_pc = "done"

\* a..b is a run of missing frames with no missing frame next to it.
MaximalRun(a, b) ==
    /\ a <= b
    /\ \A t \in a..b : Missing(t)
    /\ a = 1 \/ Valid(a - 1)
    /\ b = Len(tracks) \/ Valid(b + 1)

\* A valid frame s at most 2 frames from t, with only missing frames between.
Reaches(s, t) ==
    /\ Valid(s)
    /\ s - t <= FillLimit /\ t - s <= FillLimit
    /\ \A u \in Frames : ((s < u /\ u < t) \/ (t < u /\ u < s)) => Missing(u)

\* C1: before smoothing, present[t] is true and bbox[t] is the detection's box
\* exactly when frame t has exactly one detection of a kept track; otherwise
\* present[t] is false and bbox[t] is (0,0,0,0).
C1_Resolution ==
    Done => /\ Len(present) = Len(tracks)
            /\ Len(bbox) = Len(tracks)
            /\ \A t \in Frames :
                  IF Valid(t)
                  THEN present[t] = TRUE /\ bbox[t] = KeptBox(t)
                  ELSE present[t] = FALSE /\ bbox[t] = ZeroBox

C1_Witness ==
    /\ Done
    /\ \E t1, t2, t3 \in Frames :
          /\ Valid(t1) /\ Len(tracks[t1]) = 2
          /\ Kept(t2) = {}
          /\ Duplicate(t3)

\* C2 as stated: a run of 3 or more consecutive missing frames is never turned
\* entirely into present=true by the gap-filling.
C2_Original ==
    Done => \A a, b \in Frames :
               (MaximalRun(a, b) /\ b - a + 1 >= 3) => \E t \in a..b : ~key_present[t]

\* C2 as amended: a maximal run of missing frames becomes entirely present
\* exactly when it has a valid frame on both sides and at most 4 frames, or a
\* valid frame on one side only and at most 2 frames; so runs of 5 or more, and
\* runs of 3 or more at the start or the end of the input, keep a frame with
\* present=false.
C2_Amended ==
    Done => \A a, b \in Frames :
               MaximalRun(a, b) =>
                  ((\A t \in a..b : key_present[t])
                   <=> LET L == b - a + 1
                           left == a > 1
                           right == b < Len(tracks)
                       IN  \/ left /\ right /\ L <= 2 * FillLimit
                           \/ left /\ ~right /\ L <= FillLimit
                           \/ ~left /\ right /\ L <= FillLimit)

C2_Witness ==
    /\ Done
    /\ \E a \in Frames :
          /\ a > 1 /\ a + 4 < Len(tracks) /\ MaximalRun(a, a + 4)
          /\ key_present[a] /\ key_present[a + 1] /\ ~key_present[a + 2]
          /\ key_present[a + 3] /\ key_present[a + 4]

\* Scenario B: 5 frames, only frame 1 has a detection of a kept track.
ScenarioB ==
    /\ Len(tracks) = 5
    /\ Valid(1)
    /\ \A t \in 2..5 : Kept(t) = {}

\* C3 as stated: Scenario B gives present=[T,F,F,F,F]; a trailing run of
\* missing frames with no later valid frame is not made present, and the
\* coordinates of the unfilled frames are 0.
C3_Original ==
    Done => /\ ScenarioB => key_present = <<TRUE, FALSE, FALSE, FALSE, FALSE>>
            /\ \A v \in Frames :
                  (Valid(v) /\ \A t \in (v + 1)..Len(tracks) : Missing(t)) =>
                     \A t \in (v + 1)..Len(tracks) :
                        ~key_present[t] /\ key_bbox[t] = AsCells(ZeroBox)

\* C3 as amended: Scenario B gives present=[T,T,T,F,F]; of a trailing run of
\* missing frames the first two are made present with the box of the last
\* valid frame, the others keep present=false with all coordinates NaN.
C3_Amended ==
    Done => /\ ScenarioB => key_present = <<TRUE, TRUE, TRUE, FALSE, FALSE>>
            /\ \A v \in Frames :
                  (Valid(v) /\ \A t \in (v + 1)..Len(tracks) : Missing(t)) =>
                     \A t \in (v + 1)..Len(tracks) :
                        IF t <= v + FillLimit
                        THEN key_present[t] /\ key_bbox[t] = AsCells(KeptBox(v))
                        ELSE ~key_present[t] /\ key_bbox[t] = NaNRow

C3_Witness == Done /\ ScenarioB

\* C4 as stated: a frame with two or more detections of kept tracks has
\* present=false in the committed output, whatever the smoothing.
C4_Original ==
    Done => \A t \in Frames : Duplicate(t) => ~key_present[t]

\* C4 as amended: such a frame has present=false before smoothing and is then
\* smoothed as any missing frame: it is committed with present=true, and a
\* valid neighbour's box, exactly when a valid frame lies at most 2 frames
\* away with only missing frames between.
C4_Amended ==
    Done => \A t \in Frames :
               Duplicate(t) =>
                  /\ ~present[t]
                  /\ key_present[t] <=> \E s \in Frames : Reaches(s, t)
                  /\ key_present[t] =>
                        \E s \in Frames : Reaches(s, t) /\ key_bbox[t] = AsCells(KeptBox(s))

C4_Witness ==
    /\ Done
    /\ \E t, u \in Frames :
          /\ Duplicate(t) /\ key_present[t]
          /\ Duplicate(u) /\ ~key_present[u]

\* Scenario A: 5 frames, only frame 2 lacks the kept track.
ScenarioA ==
    /\ Len(tracks) = 5
    /\ Kept(2) = {}
    /\ \A t \in {1, 3, 4, 5} : Valid(t)

\* C5: a gap of 1 or 2 missing frames with a valid frame on both sides is
\* filled entirely with the box of the next valid frame, not the previous
\* one, and all its frames end with present=true; Scenario A gives
\* present=[T,T,T,T,T] with frame 2 carrying frame 3's box.
C5_ShortGapFromLater ==
    Done => /\ \A a, b \in Frames :
                  (MaximalRun(a, b) /\ a > 1 /\ b < Len(tracks) /\ b - a + 1 <= 2) =>
                     \A t \in a..b :
                        /\ key_present[t]
                        /\ key_bbox[t] = AsCells(KeptBox(b + 1))
                        /\ key_bbox[t] # AsCells(KeptBox(a - 1))
            /\ ScenarioA =>
                  /\ key_present = <<TRUE, TRUE, TRUE, TRUE, TRUE>>
                  /\ key_bbox[2] = AsCells(KeptBox(3))

C5_Witness ==
    /\ Done
    /\ \/ ScenarioA
       \/ Len(tracks) > 3 /\ MaximalRun(2, 3)

\* C6: after smoothing a frame with present=true either was valid and carries
\* its own kept-track box, or carries the box of a valid frame at most 2
\* frames away with only missing frames between; no committed bbox is the box
\* of a detection of a track that is not kept.
C6_FilledFromNear ==
    Done => /\ \A t \in Frames :
                  key_present[t] =>
                     \/ Valid(t) /\ key_bbox[t] = AsCells(KeptBox(t))
                     \/ /\ Missing(t)
                        /\ \E s \in Frames : Reaches(s, t) /\ key_bbox[t] = AsCells(KeptBox(s))
            /\ \A t, u \in Frames : \A j \in 1..Len(tracks[u]) :
                  tracks[u][j].track_id \notin keep_tracks =>
                     key_bbox[t] # AsCells(tracks[u][j].tlhw)

C6_Witness ==
    /\ Done
    /\ \E t, u \in Frames :
          /\ Missing(t) /\ key_present[t]
          /\ Len(tracks[t]) > 0 /\ Kept(t) = {}
          /\ Valid(u) /\ Len(tracks[u]) = 2

\* C7 as stated: for every tracks input, one with zero frames included, make
\* completes and commits present and bbox arrays with one entry per frame.
C7_Original ==
    pb_pc # "ready" => /\ pb_pc = "done"
                       /\ Len(key_present) = Len(tracks)
                       /\ Len(key_bbox) = Len(tracks)

\* C8 as stated: the transient files a stage materializes during make (the
\* local video copy, a transcoded copy, a temporary output file) are all
\* deleted when make ends, on every exit path.
C8_Original ==
    fm_last.exit # "none" => \A f \in fs : f.call # fm_calls

\* C9 as stated: populate never calls a stage's make for a key before a
\* matching row is committed in every upstream table the stage declares, also
\* for the stages that override key_source.
C9_Original == last_dispatch.ready

\* The method names a stage registers: the names of its lookup contents.
Registered(stage) == {r.name : r \in contents(stage)}

\* C10 as stated: a make call for a method that is not one of the stage's
\* registered names (a method id without lookup row included) fails with the
\* stage's unsupported-method error, runs no backend and writes no row.
C10_Original ==
    (last_make.called /\ (~last_make.found \/ last_make.name \notin Registered(method_key.stage)))
        => /\ last_make.error = "unsupported"
           /\ last_make.backend = "none"
           /\ ~last_make.inserted
           /\ ~computed

\* C11 as stated: every method name of a stage's lookup contents selects a
\* backend in the stage's make, two registered names never select the same
\* backend, and every backend that make runs can be selected by a name of the
\* contents.
C11_Original ==
    last_make.called /\ last_make.found =>
        LET stage == method_key.stage
        IN  /\ last_make.name \in Registered(stage) =>
                  /\ last_make.backend # "none"
                  /\ \A n \in Registered(stage) \ {last_make.name} :
                        select(stage, n).backend # last_make.backend
            /\ last_make.backend # "none" =>
                  \E n \in Registered(stage) : select(stage, n).backend = last_make.backend

\* The statements of a make that follow its insert: the cleanup.
CleanupSteps == {"release", "remove"}
RaisedMake == mk.exit \in {"raised", "cancelled"}
KeyRows(rows) == {r \in rows : r.stage = mk.stage /\ Agrees(r.pk, mk.key)}

C14_Original ==
    mt_pc = "done" =>
        \A f \in DOMAIN mt_key \ {"stage"} :
            \A t \in 1..Len(matched) :
                /\ mt_key[f][t] # Null
                /\ matched[t] = Null => mt_key[f][t] \in {zeros, nans}

\* The rows of a video in BestDetectedFrames and in DetectedFrames.
BestRows(v) == {k \in BestDetectedFrames : VideoOf(k) = v}
DetectedRows(v) == {r \in DetectedFrames : VideoOf(r.key) = v}

\* C15: no step deletes, replaces or updates a committed row: every table keeps
\* its rows with their content, a row is only inserted under a key that has no
\* row, and a key that is ready stays ready.
C15_RowsStay ==
    [][/\ Video \subseteq Video'
       /\ VideoInfo \subseteq VideoInfo'
       /\ TrackingBboxMethod \subseteq TrackingBboxMethod'
       /\ TrackingBbox \subseteq TrackingBbox'
       /\ PersonBboxValid \subseteq PersonBboxValid'
       /\ PersonBbox \subseteq PersonBbox'
       /\ DetectedFrames \subseteq DetectedFrames'
       /\ BestDetectedFrames \subseteq BestDetectedFrames'
       /\ \A r \in DetectedFrames' \ DetectedFrames : r.key \notin DetectedKeys
       /\ \A k \in VideoKeys :
             /\ VideoInfo_ready(k) => VideoInfo_ready(k)'
             /\ BestDetectedFrames_ready(k) => BestDetectedFrames_ready(k)'
       /\ \A k \in MethodKeys : TrackingBbox_ready(k) => TrackingBbox_ready(k)'
       /\ \A k \in SubjectKeys :
             /\ PersonBbox_ready(k) => PersonBbox_ready(k)'
             /\ DetectedFrames_ready(k) => DetectedFrames_ready(k)']_vars

C15_Witness ==
    /\ Cardinality(DetectedFrames) = 2
    /\ \E r \in DetectedFrames : r.fraction_found = 0
    /\ BestDetectedFrames # {}
    /\ PersonBbox # {}

\* C16: a key whose make has committed its row is not a key of populate again,
\* and a candidate key that populate has nothing to do for stays so: a second
\* populate of a fully computed stage calls make for no key. This holds for
\* BestDetectedFrames, whose candidate keys are videos and whose rows carry the
\* key of a DetectedFrames row.
C16_SecondPopulate ==
    [][/\ VideoInfo' # VideoInfo => last_dispatch'.key \notin VideoInfo_todo'
       /\ TrackingBbox' # TrackingBbox => last_dispatch'.key \notin TrackingBbox_todo'
       /\ PersonBbox' # PersonBbox => last_dispatch'.key \notin PersonBbox_todo'
       /\ DetectedFrames' # DetectedFrames => last_dispatch'.key \notin DetectedFrames_todo'
       /\ BestDetectedFrames' # BestDetectedFrames =>
              last_dispatch'.key \notin BestDetectedFrames_todo'
       /\ \A k \in VideoInfo_key_source \ VideoInfo_todo : k \notin VideoInfo_todo'
       /\ \A k \in TrackingBbox_key_source \ TrackingBbox_todo : k \notin TrackingBbox_todo'
       /\ \A k \in PersonBbox_key_source \ PersonBbox_todo : k \notin PersonBbox_todo'
       /\ \A k \in DetectedFrames_key_source \ DetectedFrames_todo :
             k \notin DetectedFrames_todo'
       /\ \A k \in BestDetectedFrames_key_source \ BestDetectedFrames_todo :
             k \notin BestDetectedFrames_todo']_vars

C16_Witness ==
    /\ last_dispatch.stage = "BestDetectedFrames"
    /\ BestDetectedFrames # {}
    /\ BestDetectedFrames_key_source # {}
    /\ BestDetectedFrames_todo = {}
    /\ DetectedFrames_todo = {}
    /\ Cardinality(DetectedFrames) = 2

\* C17: the make of BestDetectedFrames for a video commits exactly one row, the
\* key of the row of largest fraction_found among the video's DetectedFrames
\* rows at that time, the first of them on ties; and a video never has more
\* than one BestDetectedFrames row.
C17_BestRow ==
    /\ [](\A v \in VideoKeys : Cardinality(BestRows(v)) <= 1)
    /\ [][BestDetectedFrames' # BestDetectedFrames =>
            \E r \in DetectedRows(last_dispatch'.key) :
                /\ BestDetectedFrames' = BestDetectedFrames \cup {r.key}
                /\ r.key \notin BestDetectedFrames
                /\ \A q \in DetectedRows(last_dispatch'.key) :
                      /\ q.fraction_found <= r.fraction_found
                      /\ q.fraction_found = r.fraction_found =>
                            q.key.video_subject_id >= r.key.video_subject_id]_vars

C17_Witness ==
    /\ last_dispatch.stage = "BestDetectedFrames"
    /\ Cardinality(DetectedFrames) = 2
    /\ \A r \in DetectedFrames : r.fraction_found = 1
    /\ \E k \in BestDetectedFrames : k.video_subject_id = 0

\* C18 as stated: DetectedFrames.make completes for every tracks input;
\* frames_detected is the number of frames with exactly one kept detection,
\* frames_missed the number of the other frames, the two add up to the number
\* of frames, and a frame's others is its number of detections, less one when
\* the person is present.
C18_Original ==
    /\ df_pc \in {"done", "raised"} => df_pc = "done"
    /\ df_pc = "done" =>
          /\ df_key.frames_detected = Cardinality({t \in Frames : Valid(t)})
          /\ df_key.frames_missed = Cardinality({t \in Frames : ~Valid(t)})
          /\ df_key.frames_detected + df_key.frames_missed = Len(tracks)
          /\ Len(df_key.frame_data) = Len(tracks)
          /\ \A t \in Frames :
                df_key.frame_data[t].others =
                    IF Valid(t) THEN Len(tracks[t]) - 1 ELSE Len(tracks[t])

\* C19: in the committed result, present[t] is true exactly when no coordinate
\* of bbox[t] is missing, and the four coordinates of a frame are all filled or
\* all missing.
C19_FilledTogether ==
    Done =>
        /\ Len(key_present) = Len(key_bbox)
        /\ \A t \in 1..Len(key_bbox) :
              /\ key_present[t] <=> \A c \in 1..4 : ~key_bbox[t][c].isna
              /\ \/ \A c \in 1..4 : key_bbox[t][c].isna
                 \/ \A c \in 1..4 : ~key_bbox[t][c].isna

C19_Witness ==
    /\ Done
    /\ \E t \in Frames : Missing(t) /\ key_present[t]
    /\ \E t \in Frames : ~key_present[t] /\ \A c \in 1..4 : key_bbox[t][c].isna

\* C20 as stated: a make fetches only from the tables its definition
\* references or from their ancestors, so the make of a ready key finds a row
\* in every table it fetches from.
C20_Original ==
    /\ gr_last.missing = {}
    /\ gr_last.stage # "none" => Reads(gr_last.stage) \subseteq Ancestors(gr_last.stage)

\* The entries of a list.
Entries(l) == {l[i] : i \in 1..Len(l)}

\* C21: a block whose body leaves sys.path as __enter__ made it ends with
\* sys.path exactly as it was before __enter__, whatever the paths, also with
\* a path given twice or already on sys.path, and in nested blocks; after
\* __enter__ the given paths are the first entries of sys.path, ahead of the
\* entries that were there.
C21_RoundTrip ==
    /\ ap_last.left /\ ap_last.at_exit = ap_last.entered => ap_last.after = ap_last.before
    /\ \A d \in 1..Len(blocks) :
          LET b == blocks[d]
              n == Len(b.path)
          IN  /\ Len(b.entered) = n + Len(b.before)
              /\ SubSeq(b.entered, n + 1, Len(b.entered)) = b.before
              /\ \A q \in Entries(b.path) :
                    Cardinality({i \in 1..n : b.entered[i] = q}) =
                    Cardinality({i \in 1..n : b.path[i] = q})

C21_Witness ==
    /\ ap_last.left
    /\ ap_last.at_exit = ap_last.entered
    /\ blocks # <<>>
    /\ Len(ap_last.path) = 2
    /\ ap_last.path[1] = ap_last.path[2]
    /\ ap_last.path[1] \in Entries(ap_last.before)
    /\ Len(ap_last.before) > 1

\* C22 as stated: __exit__ does not raise, lets the exception of the body go
\* on, and leaves on sys.path no entry that __enter__ put there, also when the
\* body has taken one of the paths off sys.path.
C22_Original ==
    ap_last.left =>
        /\ ~ap_last.exit_raised
        /\ ap_last.propagated = ap_last.body_raised
        /\ \A q \in Entries(ap_last.path) :
              q \notin Entries(ap_last.before) => q \notin Entries(ap_last.after)

====
